---- MODULE Spec2Model ----
(***************************************************************************)
(* Model of src/main.py: a Telegram relay bot that keeps a rolling         *)
(* per-user conversation (user_memory), a persisted list of users          *)
(* (known_users / users.json), a keep-alive web server thread and three    *)
(* handlers (start, stats, handle_message) run as coroutines on one event  *)
(* loop.  A handler runs atomically between two awaits; every await is a   *)
(* step of its own, at which other handlers may run.                       *)
(*                                                                         *)
(* A text is a sequence of tokens (strings); " " is a whitespace token, so *)
(* that str.strip() is computed and not assumed.                           *)
(***************************************************************************)
EXTENDS Integers, Sequences, FiniteSets, TLC

VARIABLES
    BOT_TOKEN,           \* line 11: TRUE iff TELEGRAM_BOT_TOKEN is set
    OPENROUTER_API_KEY,  \* line 12: TRUE iff OPENROUTER_API_KEY is set
    mainpc,              \* position of the main thread (lines 151-153, 134-147)
    flaskpc,             \* position of the keep_alive thread (lines 44-52)
    known_users,         \* line 40: the in-memory list of user ids
    users_file,          \* content of USERS_FILE (line 22) on disk
    user_memory,         \* line 21: dict user id -> list of messages
    tasks,               \* the handler coroutines, one per slot
    updates,             \* number of updates dispatched to handlers so far
    log,                 \* per user: every message ever appended, in order
    senders,             \* the users who have sent /start or a text message
    loaded               \* the list load_users returned at startup (line 40)

vars == <<BOT_TOKEN, OPENROUTER_API_KEY, mainpc, flaskpc, known_users,
          users_file, user_memory, tasks, updates, log, senders, loaded>>

----------------------------------------------------------------------------
(* Bounds of the model *)

\* updates dispatched in a run of Spec (handlers interleave)
MaxUpdates == 2
\* messages handled in a run of SpecSeq (one after another, no fault)
MaxSeqUpdates == 9
\* messages handled in a run of SpecSeqFaults (one after another)
MaxFaultyUpdates == 5

(* Program constants *)

\* line 113 and line 126: history[-8:]
W == 8

Users == {1, 2}
\* handler coroutines that may be in flight at once
Slots == {1, 2}

----------------------------------------------------------------------------
(* Texts *)

SP == " "

\* line 119
THINKING == <<"Thinking...">>
\* line 76
HTTP_FALLBACK == <<"Sorry, there was a problem connecting to the AI.">>
\* line 130
SOMETHING_WRONG == <<"Something went wrong. Please try again later.">>
\* lines 90-91
GREETING == <<"Hey! I'm your AI assistant", "Send me any question">>
\* line 116
SYSTEM_PROMPT == <<"You are a friendly Telegram assistant">>
\* line 97
StatsLine(total_users) ==
    <<"Total users who interacted with me:", SP, ToString(total_users)>>

\* the body of a non-200 upstream response (line 74)
ERROR_BODY == <<"upstream error body">>
\* str(e) of an exception raised while a turn is handled (line 128)
EXC_TEXT == <<"exception text">>

\* the texts users send (update.message.text, line 103)
UserTexts == {<<"hello">>, <<"bye">>}

\* the content field of a well-formed upstream body, before strip()
RawContents == {<<SP, "hi", SP, "there", SP>>}

\* str.strip() (line 79): drop leading and trailing whitespace tokens
RECURSIVE LStrip(_)
LStrip(s) ==
    IF s # <<>> /\ Head(s) = SP THEN LStrip(Tail(s)) ELSE s

RECURSIVE RStrip(_)
RStrip(s) ==
    IF s # <<>> /\ s[Len(s)] = SP THEN RStrip(SubSeq(s, 1, Len(s) - 1)) ELSE s

Strip(s) == RStrip(LStrip(s))

----------------------------------------------------------------------------
(* Lists *)

\* lst[-n:]
LastN(n, lst) ==
    IF Len(lst) <= n THEN lst ELSE SubSeq(lst, Len(lst) - n + 1, Len(lst))

\* x in lst
InList(x, lst) == \E i \in 1..Len(lst) : lst[i] = x

Msg(role, content) == [role |-> role, content |-> content]

\* memory.get(user_id, []) seen as a value (line 111)
Get(memory, user_id) ==
    IF user_id \in DOMAIN memory THEN memory[user_id] ELSE <<>>

\* the conversation stored for a user
Window(user_id) == Get(user_memory, user_id)

----------------------------------------------------------------------------
(* The users file *)

NoFile == [exists |-> FALSE, valid |-> FALSE, users |-> <<>>]
FileOf(users) == [exists |-> TRUE, valid |-> TRUE, users |-> users]
\* a file opened for writing (truncated) whose json.dump did not complete
TruncatedFile == [exists |-> TRUE, valid |-> FALSE, users |-> <<>>]

\* load_users (lines 26-31)
load_users(file) == IF file.exists THEN file.users ELSE <<>>

\* the outcomes of save_users (lines 34-37): the write succeeds, open()
\* raises, or json.dump raises after open() truncated the file
WriteOutcomes == {"ok", "open_raises", "dump_raises"}

save_users(file, users, w) ==
    CASE w = "ok" -> FileOf(users)
      [] w = "open_raises" -> file
      [] OTHER -> TruncatedFile

----------------------------------------------------------------------------
(* Upstream responses *)

\* what the upstream call meets: a transport fault (timeout, connection
\* error), or a response with a status and a body.  A body is malformed
\* when data["choices"][0] does not exist.
OkResponses ==
    {[fault |-> FALSE, status |-> 200, choices |-> <<c>>, text |-> <<>>] :
        c \in RawContents}
HttpErrors ==
    {[fault |-> FALSE, status |-> 500, choices |-> <<>>, text |-> ERROR_BODY]}
Malformed ==
    {[fault |-> FALSE, status |-> 200, choices |-> <<>>, text |-> <<>>]}
Faults ==
    {[fault |-> TRUE, status |-> 0, choices |-> <<>>, text |-> <<>>]}
Responses == OkResponses \cup HttpErrors \cup Malformed \cup Faults

\* response.raise_for_status() in place of lines 73-76: a non-200 raises
ask_openrouter_raising(resp) ==
    IF resp.fault \/ resp.status # 200 \/ resp.choices = <<>>
    THEN [raised |-> TRUE, value |-> EXC_TEXT]
    ELSE [raised |-> FALSE, value |-> Strip(resp.choices[1])]

\* "return text" in place of line 76: the error body is returned
ask_openrouter_leaking(resp) ==
    IF resp.fault THEN [raised |-> TRUE, value |-> EXC_TEXT]
    ELSE IF resp.status # 200 THEN [raised |-> FALSE, value |-> resp.text]
    ELSE IF resp.choices = <<>> THEN [raised |-> TRUE, value |-> EXC_TEXT]
    ELSE [raised |-> FALSE, value |-> Strip(resp.choices[1])]

\* ask_openrouter (lines 71-79): what it returns, or that it raises
ask_openrouter(resp) ==
    IF resp.fault THEN [raised |-> TRUE, value |-> EXC_TEXT]
    ELSE IF resp.status # 200 THEN [raised |-> FALSE, value |-> HTTP_FALLBACK]
    ELSE IF resp.choices = <<>> THEN [raised |-> TRUE, value |-> EXC_TEXT]
    ELSE [raised |-> FALSE, value |-> Strip(resp.choices[1])]

----------------------------------------------------------------------------
(* Handler coroutines *)

IdleTask ==
    [kind |-> "none", pc |-> "idle", user_id |-> 0, user_input |-> <<>>,
     history |-> <<>>, messages |-> <<>>, ai_reply |-> <<>>,
     exc |-> <<>>, total_users |-> 0,
     \* bookkeeping of the run, not program state:
     before |-> <<>>,         \* the sender's stored conversation on arrival
     outcome |-> "none",      \* how the upstream call ended
     relay_raised |-> FALSE,  \* reply_text(ai_reply) raised (line 123)
     escaped_at |-> 0,        \* the line whose exception left the handler
     final |-> <<>>,          \* the last text this handler delivered
     calls |-> 0]             \* upstream calls this handler made

\* a slot is free when no coroutine runs in it
Free(h) == tasks[h].pc \in {"idle", "done", "escaped"}
NextFree(h) == Free(h) /\ \A g \in Slots : g < h => ~Free(g)
Quiet == \A h \in Slots : Free(h)

\* reply_text(text) delivered the text to the sender's chat
Deliver(t, text) == [t EXCEPT !.final = text]

\* the coroutine returned, or an exception left it: its locals are gone
Gone(t) ==
    [t EXCEPT !.history = <<>>, !.messages = <<>>, !.ai_reply = <<>>,
              !.exc = <<>>, !.total_users = 0]
Returned(t) == [Gone(t) EXCEPT !.pc = "done"]
Escaped(t, line) == [Gone(t) EXCEPT !.pc = "escaped", !.escaped_at = line]

\* line 130: the text sent from the except block, given str(e)
Fallback(text) == SOMETHING_WRONG

\* "if user_id not in known_users: known_users.append(user_id);
\*  save_users(known_users)" (lines 85-87 and 106-108)
IsNew(user_id) == ~InList(user_id, known_users)
\* the append of line 107 made without the test of line 106
AppendAlways(user_id) == Append(known_users, user_id)

KnownAfter(user_id) ==
    IF IsNew(user_id) THEN Append(known_users, user_id) ELSE known_users
FileAfter(user_id, w) ==
    IF IsNew(user_id)
    THEN save_users(users_file, KnownAfter(user_id), w)
    ELSE users_file
RegisterRaises(user_id, w) == IsNew(user_id) /\ w # "ok"

\* history[:8] in place of history[-8:]: keeps the oldest entries
TrimKeepsOldest(history) ==
    IF Len(history) <= W THEN history ELSE SubSeq(history, 1, W)

\* history[-7:] in place of history[-8:]: an odd window
TrimToSeven(history) == LastN(W - 1, history)

\* lines 113 and 126: history[-8:]
Trim(history) == LastN(W, history)

\* one list object shared by every user: the append reaches all of them
AppendToSharedList(memory, user_id, m) ==
    [u \in DOMAIN memory |-> Append(memory[u], m)]

\* lines 111-112: history = user_memory.get(user_id, []); history.append(m).
\* get returns the stored list itself, so the append is made to the stored
\* list when the user has one, and to a fresh list otherwise.
AppendInPlace(memory, user_id, m) ==
    IF user_id \in DOMAIN memory
    THEN [memory EXCEPT ![user_id] = Append(@, m)]
    ELSE memory

\* history + [system prompt] in place of lines 115-117
RequestContextPromptLast(history) ==
    history \o <<Msg("system", SYSTEM_PROMPT)>>

\* line 115-117
RequestContext(history) == <<Msg("system", SYSTEM_PROMPT)>> \o history

\* lines 125-126 skipped when the reply is the fallback of line 76
StoreReplyUnlessFallback(memory, user_id, history, ai_reply) ==
    IF ai_reply = HTTP_FALLBACK
    THEN memory
    ELSE [u \in DOMAIN memory \cup {user_id} |->
             IF u = user_id
             THEN LastN(W, Append(history, Msg("assistant", ai_reply)))
             ELSE memory[u]]

\* lines 125-126: history.append(reply); user_memory[user_id] = history[-8:]
StoreReply(memory, user_id, history, ai_reply) ==
    [u \in DOMAIN memory \cup {user_id} |->
        IF u = user_id
        THEN Trim(Append(history, Msg("assistant", ai_reply)))
        ELSE memory[u]]

Outcome(resp) ==
    CASE resp.fault -> "fault"
      [] resp.status # 200 -> "http_error"
      [] resp.choices = <<>> -> "malformed"
      [] OTHER -> "ok"

----------------------------------------------------------------------------
(* Startup: lines 151-153 and main(), lines 134-147 *)

\* line 152: Thread(target=keep_alive).start(), then line 153 calls main()
ThreadStart ==
    /\ mainpc = "entry"
    /\ mainpc' = "main"
    /\ flaskpc' = "started"
    /\ UNCHANGED <<BOT_TOKEN, OPENROUTER_API_KEY, loaded, senders,
                   known_users,
                   users_file, user_memory, tasks, updates, log>>

\* lines 45-52: the thread builds the Flask app and serves on the port
keep_alive ==
    /\ flaskpc = "started"
    /\ flaskpc' = "serving"
    /\ UNCHANGED <<BOT_TOKEN, OPENROUTER_API_KEY, loaded, senders,
                   mainpc, known_users,
                   users_file, user_memory, tasks, updates, log>>

\* lines 135-138: raise ValueError when a variable is missing
MainCheck ==
    /\ mainpc = "main"
    /\ mainpc' = IF BOT_TOKEN /\ OPENROUTER_API_KEY THEN "checked" ELSE "raised"
    /\ UNCHANGED <<BOT_TOKEN, OPENROUTER_API_KEY, loaded, senders,
                   flaskpc, known_users,
                   users_file, user_memory, tasks, updates, log>>

\* lines 140-144: build the application and add the three handlers
MainBuild ==
    /\ mainpc = "checked"
    /\ mainpc' = "registered"
    /\ UNCHANGED <<BOT_TOKEN, OPENROUTER_API_KEY, loaded, senders,
                   flaskpc, known_users,
                   users_file, user_memory, tasks, updates, log>>

\* lines 146-147: app.run_polling
run_polling ==
    /\ mainpc = "registered"
    /\ mainpc' = "polling"
    /\ UNCHANGED <<BOT_TOKEN, OPENROUTER_API_KEY, loaded, senders,
                   flaskpc, known_users,
                   users_file, user_memory, tasks, updates, log>>

----------------------------------------------------------------------------
(* start, lines 83-92 *)

start(h, user_id, w) ==
    /\ mainpc = "polling"
    /\ NextFree(h)
    /\ IsNew(user_id) \/ w = "ok"
    /\ known_users' = KnownAfter(user_id)
    /\ users_file' = FileAfter(user_id, w)
    /\ LET t == [IdleTask EXCEPT !.kind = "start", !.pc = "greeting",
                                 !.user_id = user_id,
                                 !.before = Window(user_id)]
       IN tasks' = [tasks EXCEPT ![h] =
                       IF RegisterRaises(user_id, w)
                       THEN Escaped(t, 87) ELSE t]
    /\ updates' = updates + 1
    /\ senders' = senders \cup {user_id}
    /\ UNCHANGED <<BOT_TOKEN, OPENROUTER_API_KEY, loaded,
                   mainpc, flaskpc,
                   user_memory, log>>

\* line 89: await update.message.reply_text(greeting) completes or raises
GreetingSent(h, ok) ==
    /\ tasks[h].pc = "greeting"
    /\ tasks' = [tasks EXCEPT ![h] =
                    IF ok THEN Returned(Deliver(@, GREETING))
                    ELSE Escaped(@, 89)]
    /\ UNCHANGED <<BOT_TOKEN, OPENROUTER_API_KEY, loaded, senders,
                   mainpc, flaskpc,
                   known_users, users_file, user_memory, updates, log>>

(* stats, lines 95-97 *)

stats(h, user_id) ==
    /\ mainpc = "polling"
    /\ NextFree(h)
    /\ tasks' = [tasks EXCEPT ![h] =
                    [IdleTask EXCEPT !.kind = "stats", !.pc = "counting",
                                     !.user_id = user_id,
                                     !.before = Window(user_id),
                                     !.total_users = Len(known_users)]]
    /\ updates' = updates + 1
    /\ UNCHANGED <<BOT_TOKEN, OPENROUTER_API_KEY, loaded, senders,
                   mainpc, flaskpc,
                   known_users, users_file, user_memory, log>>

\* line 97: await update.message.reply_text(...) completes or raises
StatsSent(h, ok) ==
    /\ tasks[h].pc = "counting"
    /\ tasks' = [tasks EXCEPT ![h] =
                    IF ok THEN Returned(Deliver(@, StatsLine(@.total_users)))
                    ELSE Escaped(@, 97)]
    /\ UNCHANGED <<BOT_TOKEN, OPENROUTER_API_KEY, loaded, senders,
                   mainpc, flaskpc,
                   known_users, users_file, user_memory, updates, log>>

----------------
(* handle_message, lines 101-130 *)

\* lines 102-119, up to the first await: register the user, append the
\* message, trim, build the request context, start sending the notice
handle_message(h, user_id, user_input, w) ==
    /\ mainpc = "polling"
    /\ NextFree(h)
    /\ IsNew(user_id) \/ w = "ok"
    /\ known_users' = KnownAfter(user_id)
    /\ users_file' = FileAfter(user_id, w)
    /\ updates' = updates + 1
    /\ LET m == Msg("user", user_input)
           t == [IdleTask EXCEPT !.kind = "message", !.user_id = user_id,
                                 !.user_input = user_input,
                                 !.before = Window(user_id)]
           history == Trim(Append(Window(user_id), m))
       IN IF RegisterRaises(user_id, w)
          THEN /\ tasks' = [tasks EXCEPT ![h] = Escaped(t, 108)]
               /\ UNCHANGED <<user_memory, log>>
          ELSE /\ user_memory' = AppendInPlace(user_memory, user_id, m)
               /\ log' = [log EXCEPT ![user_id] = Append(@, m)]
               /\ tasks' = [tasks EXCEPT ![h] =
                      [t EXCEPT !.pc = "thinking", !.history = history,
                                !.messages = RequestContext(history)]]
    /\ senders' = senders \cup {user_id}
    /\ UNCHANGED <<BOT_TOKEN, OPENROUTER_API_KEY, loaded,
                   mainpc, flaskpc>>

\* line 119 completes or raises; when it completes, line 122 calls
\* ask_openrouter, which issues the request (line 72) and awaits the response
ThinkingSent(h, ok) ==
    /\ tasks[h].pc = "thinking"
    /\ tasks' = [tasks EXCEPT ![h] =
                    IF ok
                    THEN [Deliver(@, THINKING) EXCEPT !.pc = "asking",
                                                      !.calls = @ + 1]
                    ELSE Escaped(@, 119)]
    /\ UNCHANGED <<BOT_TOKEN, OPENROUTER_API_KEY, loaded, senders,
                   mainpc, flaskpc,
                   known_users, users_file, user_memory, updates, log>>

\* lines 72-79 and 122-123: the upstream call ends; its result is handed to
\* reply_text, or the exception it raised is caught on line 128 and the
\* fallback of line 130 is handed to reply_text
UpstreamResponds(h, resp) ==
    /\ tasks[h].pc = "asking"
    /\ LET r == ask_openrouter(resp)
       IN tasks' = [tasks EXCEPT ![h] =
              IF r.raised
              THEN [@ EXCEPT !.pc = "apologizing", !.exc = r.value,
                             !.outcome = Outcome(resp)]
              ELSE [@ EXCEPT !.pc = "replying", !.ai_reply = r.value,
                             !.outcome = Outcome(resp)]]
    /\ UNCHANGED <<BOT_TOKEN, OPENROUTER_API_KEY, loaded, senders,
                   mainpc, flaskpc,
                   known_users, users_file, user_memory, updates, log>>

\* line 123 completes, then lines 125-126 store the reply; or line 123
\* raises and the handler goes to line 128
ReplySent(h, ok) ==
    /\ tasks[h].pc = "replying"
    /\ LET t == tasks[h]
       IN IF ok
          THEN /\ user_memory' =
                      StoreReply(user_memory, t.user_id, t.history, t.ai_reply)
               /\ log' = [log EXCEPT ![t.user_id] =
                             Append(@, Msg("assistant", t.ai_reply))]
               /\ tasks' = [tasks EXCEPT ![h] =
                               Returned(Deliver(@, t.ai_reply))]
          ELSE /\ UNCHANGED <<user_memory, log>>
               /\ tasks' = [tasks EXCEPT ![h] =
                               [@ EXCEPT !.pc = "apologizing",
                                         !.exc = EXC_TEXT,
                                         !.relay_raised = TRUE]]
    /\ UNCHANGED <<BOT_TOKEN, OPENROUTER_API_KEY, loaded, senders,
                   mainpc, flaskpc,
                   known_users, users_file, updates>>

\* line 130 completes, or raises out of the except block
FallbackSent(h, ok) ==
    /\ tasks[h].pc = "apologizing"
    /\ tasks' = [tasks EXCEPT ![h] =
                    IF ok THEN Returned(Deliver(@, Fallback(@.exc)))
                    ELSE Escaped(@, 130)]
    /\ UNCHANGED <<BOT_TOKEN, OPENROUTER_API_KEY, loaded, senders,
                   mainpc, flaskpc,
                   known_users, users_file, user_memory, updates, log>>

----------------
(* Specifications *)

\* the users file the process finds when it starts: none, or one that an
\* earlier run of the program wrote
InitialFiles == {NoFile, FileOf(<<1>>)}

Init ==
    /\ BOT_TOKEN \in BOOLEAN
    /\ OPENROUTER_API_KEY \in BOOLEAN
    /\ mainpc = "entry"
    /\ flaskpc = "unstarted"
    /\ users_file \in InitialFiles
    /\ known_users = load_users(users_file)
    /\ user_memory = [u \in {} |-> <<>>]
    /\ tasks = [h \in Slots |-> IdleTask]
    /\ updates = 0
    /\ log = [u \in Users |-> <<>>]
    /\ senders = {}
    /\ loaded = known_users

Boot ==
    \/ ThreadStart
    \/ keep_alive
    \/ MainCheck
    \/ MainBuild
    \/ run_polling

\* updates are dispatched while earlier handlers are still in flight, so
\* handlers interleave at their awaits; every call out of the process (to
\* the platform, the upstream API, the file system) may fail
Next ==
    \/ Boot
    \/ \E h \in Slots, u \in Users, w \in WriteOutcomes :
          updates < MaxUpdates /\ start(h, u, w)
    \/ \E h \in Slots, u \in Users :
          updates < MaxUpdates /\ stats(h, u)
    \/ \E h \in Slots, u \in Users, t \in UserTexts, w \in WriteOutcomes :
          updates < MaxUpdates /\ handle_message(h, u, t, w)
    \/ \E h \in Slots, ok \in BOOLEAN : GreetingSent(h, ok)
    \/ \E h \in Slots, ok \in BOOLEAN : StatsSent(h, ok)
    \/ \E h \in Slots, ok \in BOOLEAN : ThinkingSent(h, ok)
    \/ \E h \in Slots, resp \in Responses : UpstreamResponds(h, resp)
    \/ \E h \in Slots, ok \in BOOLEAN : ReplySent(h, ok)
    \/ \E h \in Slots, ok \in BOOLEAN : FallbackSent(h, ok)

Spec == Init /\ [][Next]_vars

\* the users whose messages the sequential specifications follow
SeqUsers == {1}

\* one user's messages handled one after another, every turn successful:
\* the upstream answers 200 with a well-formed body and every call to the
\* platform and to the file system completes
NextSeq ==
    \/ Boot
    \/ \E h \in Slots, u \in SeqUsers, t \in UserTexts :
          updates < MaxSeqUpdates /\ Quiet /\ handle_message(h, u, t, "ok")
    \/ \E h \in Slots : ThinkingSent(h, TRUE)
    \/ \E h \in Slots, resp \in OkResponses : UpstreamResponds(h, resp)
    \/ \E h \in Slots : ReplySent(h, TRUE)

SpecSeq == Init /\ [][NextSeq]_vars

\* one user's messages handled one after another; the upstream call may
\* succeed, answer a non-200 status, answer a malformed body or fault
NextSeqFaults ==
    \/ Boot
    \/ \E h \in Slots, u \in SeqUsers, t \in UserTexts :
          updates < MaxFaultyUpdates /\ Quiet
              /\ handle_message(h, u, t, "ok")
    \/ \E h \in Slots : ThinkingSent(h, TRUE)
    \/ \E h \in Slots, resp \in Responses : UpstreamResponds(h, resp)
    \/ \E h \in Slots : ReplySent(h, TRUE)
    \/ \E h \in Slots : FallbackSent(h, TRUE)

SpecSeqFaults == Init /\ [][NextSeqFaults]_vars

----------------------------------------------------------------------------
(* Claims *)

MessageTasks == {h \in Slots : tasks[h].kind = "message"}
Finished(h) == tasks[h].pc \in {"done", "escaped"}

\* the reply texts a 200 response with a well-formed body yields
ReplyContents == {<<"hi", SP, "there">>}

\* C1: whenever no handler is running, every user's stored conversation has
\* at most W entries, whether the upstream calls succeeded, answered a
\* non-200 status or faulted.
C1_WindowBounded ==
    Quiet => \A u \in Users : Len(Window(u)) <= W

\* C2: when one user's messages are handled one after another and every
\* turn succeeds, the stored conversation after each exchange is the last W
\* entries of the full chronological log, oldest evicted first; once the
\* log holds W entries or more its length is exactly W.
C2_WindowIsTailOfLog ==
    Quiet =>
        \A u \in Users :
            /\ Window(u) = LastN(W, log[u])
            /\ Len(log[u]) >= W => Len(Window(u)) = W

\* W+1 exchanges were handled and the two oldest entries were evicted
C2_Witness ==
    \E u \in SeqUsers :
        /\ Quiet
        /\ Len(log[u]) = 2 * (W + 1)
        /\ Len(Window(u)) = W
        /\ Window(u) # SubSeq(log[u], 1, W)
        /\ Window(u)[1] = log[u][3]

\* C3: when the upstream call of a message faults or answers a malformed
\* body, the sender's stored conversation after the handler finished is what
\* it was when the message arrived.
C3_FailedTurnAppendsNothing ==
    \A h \in MessageTasks :
        (tasks[h].pc = "done" /\ tasks[h].outcome \in {"fault", "malformed"})
            => Window(tasks[h].user_id) = tasks[h].before

\* the stored conversation after one turn handled alone
TurnResult(stored, user_input, reply) ==
    LastN(W, Append(LastN(W, Append(stored, Msg("user", user_input))),
                    Msg("assistant", reply)))

C5_OtherUsersUntouched ==
    [][\A h \in Slots, b \in Users :
          (tasks'[h] # tasks[h] /\ tasks'[h].user_id # b)
              => Get(user_memory', b) = Get(user_memory, b)]_vars

\* both users have a stored conversation and a handler of user 2 has stored
\* its reply after user 1's conversation was stored
C5_Witness ==
    /\ Window(1) # <<>>
    /\ Window(2) # <<>>
    /\ \E h \in MessageTasks :
          /\ tasks[h].user_id = 2
          /\ tasks[h].pc = "done"
          /\ tasks[h].outcome = "ok"
          /\ ~tasks[h].relay_raised

\* C6 as stated: the final text is determined by the upstream outcome: the
\* reply content after a 200 with a well-formed body, the HTTP fallback
\* after a non-200, "Something went wrong" after a fault or a malformed
\* body, and the fault does not escape the handler.
C6_FinalTextByOutcome ==
    \A h \in MessageTasks :
        LET t == tasks[h] IN
        /\ t.outcome = "ok" =>
              (t.pc = "done" => t.final \in ReplyContents)
        /\ t.outcome = "http_error" =>
              /\ t.pc = "apologizing" => t.relay_raised
              /\ t.pc = "replying" => t.ai_reply = HTTP_FALLBACK
              /\ t.pc = "done" => t.final = HTTP_FALLBACK
        /\ t.outcome \in {"fault", "malformed"} =>
              /\ t.pc = "done" => t.final = SOMETHING_WRONG
              /\ t.pc = "escaped" => t.escaped_at = 130

\* C6 as amended: the same, provided relaying the reply does not raise; when
\* reply_text raises on the reply (line 123), "Something went wrong" is sent
\* in its place, whatever the upstream outcome was.  After the upstream call
\* an exception leaves the handler only from the fallback send of line 130.
C6_FinalTextByOutcomeAndRelay ==
    \A h \in MessageTasks :
        LET t == tasks[h] IN
        /\ (t.outcome = "ok" /\ ~t.relay_raised) =>
              /\ t.pc \in {"replying", "done"}
              /\ t.pc = "done" => t.final \in ReplyContents
        /\ (t.outcome = "http_error" /\ ~t.relay_raised) =>
              /\ t.pc \in {"replying", "done"}
              /\ t.pc = "replying" => t.ai_reply = HTTP_FALLBACK
              /\ t.pc = "done" => t.final = HTTP_FALLBACK
        /\ (t.outcome \in {"fault", "malformed"} \/ t.relay_raised) =>
              /\ t.pc \in {"apologizing", "done", "escaped"}
              /\ t.pc = "done" => t.final = SOMETHING_WRONG
              /\ t.pc = "escaped" => t.escaped_at = 130
        /\ t.relay_raised => t.outcome \in {"ok", "http_error"}

\* one handler relayed the HTTP fallback after a non-200, another sent
\* "Something went wrong" because relaying a 200 reply raised
C6_Witness ==
    \E g, h \in MessageTasks :
        /\ tasks[g].pc = "done"
        /\ tasks[g].outcome = "http_error"
        /\ tasks[g].final = HTTP_FALLBACK
        /\ tasks[h].pc = "done"
        /\ tasks[h].outcome = "ok"
        /\ tasks[h].relay_raised
        /\ tasks[h].final = SOMETHING_WRONG

\* C7: whatever fault occurs while a text message is handled, no exception
\* leaves handle_message, and when it has finished the sender has received
\* the AI reply or one of the two fallback texts.
C7_EveryFailureDegrades ==
    \A h \in MessageTasks :
        /\ tasks[h].pc # "escaped"
        /\ tasks[h].pc = "done" =>
              tasks[h].final \in
                  ReplyContents \cup {HTTP_FALLBACK, SOMETHING_WRONG}

ConfigMissing == ~BOT_TOKEN \/ ~OPENROUTER_API_KEY

\* the interpreter lives as long as a non-daemon thread does
ProcessAlive == mainpc # "raised" \/ flaskpc \in {"started", "serving"}

\* C8: when a required environment variable is missing, the health-check
\* server is never started, no handler is registered, polling never begins,
\* and once the configuration error is raised the process is not running.
C8_MissingConfigStartsNothing ==
    ConfigMissing =>
        /\ flaskpc = "unstarted"
        /\ mainpc \notin {"registered", "polling"}
        /\ mainpc = "raised" => ~ProcessAlive

\* C9: every text message whose handler has finished caused exactly one
\* upstream call.
C9_OneCallPerMessage ==
    \A h \in MessageTasks : Finished(h) => tasks[h].calls = 1

\* the texts the bot may send
StatsLines == {StatsLine(n) : n \in 0..Cardinality(Users)}
AllowedTexts ==
    {GREETING, THINKING, HTTP_FALLBACK, SOMETHING_WRONG}
        \cup StatsLines \cup ReplyContents

\* C10: every text delivered to a chat is the greeting, a stats line, the
\* interim notice, the content of a 200 response or one of the two
\* fallbacks; never the body of a non-200 response nor an exception's text.
C10_OnlyFixedTextsSent ==
    \A h \in Slots :
        tasks[h].final # <<>> =>
            /\ tasks[h].final \in AllowedTexts
            /\ tasks[h].final \notin {ERROR_BODY, EXC_TEXT}

\* a non-200 response and a caught exception have both been answered
C10_Witness ==
    \E g, h \in MessageTasks :
        /\ tasks[g].pc = "done"
        /\ tasks[g].outcome = "http_error"
        /\ tasks[g].final = HTTP_FALLBACK
        /\ tasks[h].pc = "done"
        /\ tasks[h].outcome = "fault"
        /\ tasks[h].final = SOMETHING_WRONG

\* C11: while the upstream call of a message is in flight, the sender's
\* stored conversation already ends with that user message, also for a user
\* who had no stored conversation before this message.
C11_UserMessageStoredBeforeCall ==
    \A h \in MessageTasks :
        tasks[h].pc = "asking" =>
            LET stored == Window(tasks[h].user_id)
            IN /\ stored # <<>>
               /\ stored[Len(stored)] = Msg("user", tasks[h].user_input)

\* the handlers whose request context is built and not yet answered
Asking == {h \in MessageTasks : tasks[h].pc \in {"thinking", "asking"}}

\* C12: the request context of every upstream call is the system prompt
\* followed by the sender's window after the inbound message was appended:
\* one system message, at position 1, then at most W conversation messages,
\* the last of them the inbound user message; and no system message is ever
\* stored in the conversation memory.
C12_RequestContextShape ==
    /\ \A h \in Asking :
          LET t == tasks[h]
              n == Len(t.messages)
          IN /\ n >= 2
             /\ n <= W + 1
             /\ t.messages[1] = Msg("system", SYSTEM_PROMPT)
             /\ \A i \in 2..n : t.messages[i].role \in {"user", "assistant"}
             /\ t.messages[n] = Msg("user", t.user_input)
             /\ SubSeq(t.messages, 2, n) =
                    LastN(W, Append(t.before, Msg("user", t.user_input)))
    /\ \A u \in DOMAIN user_memory :
          \A i \in 1..Len(user_memory[u]) : user_memory[u][i].role # "system"

\* a call whose context holds the prompt and a full window of W messages,
\* the oldest stored entries left out
C12_Witness ==
    \E h \in Asking :
        /\ tasks[h].pc = "asking"
        /\ Len(tasks[h].messages) = W + 1
        /\ Len(tasks[h].before) >= W

\* the handlers that register their user and whose registration step
\* (lines 85-87, 106-108) completed
Registered ==
    {h \in Slots :
        /\ tasks[h].kind \in {"start", "message"}
        /\ ~(tasks[h].pc = "escaped" /\ tasks[h].escaped_at \in {87, 108})}

\* C13: whenever start or handle_message has finished its registration
\* step, the users file holds exactly the in-memory known_users list.
C13_FileMirrorsKnownUsers ==
    \A h \in Registered : users_file = FileOf(known_users)

\* C14: a non-200 answer is handled as a successful turn: when the handler
\* has finished, the stored conversation ends with the user message
\* followed by the HTTP fallback as an assistant message; and the request
\* context of the next call of that user carries that assistant message.
C14_FallbackStoredAsReply ==
    /\ \A h \in MessageTasks :
          (tasks[h].pc = "done" /\ tasks[h].outcome = "http_error") =>
              LET stored == Window(tasks[h].user_id)
                  n == Len(stored)
              IN /\ n >= 2
                 /\ stored[n - 1] = Msg("user", tasks[h].user_input)
                 /\ stored[n] = Msg("assistant", HTTP_FALLBACK)
    /\ \A h \in Asking :
          LET t == tasks[h]
              b == Len(t.before)
              n == Len(t.messages)
          IN (b >= 1 /\ t.before[b] = Msg("assistant", HTTP_FALLBACK)) =>
                 t.messages[n - 1] = Msg("assistant", HTTP_FALLBACK)

\* an upstream call whose context carries the fallback text of the turn
\* before it
C14_Witness ==
    \E h \in Asking :
        /\ tasks[h].pc = "asking"
        /\ Len(tasks[h].messages) >= 3
        /\ tasks[h].messages[Len(tasks[h].messages) - 1] =
               Msg("assistant", HTTP_FALLBACK)

\* lst holds no element twice
NoDuplicates(lst) ==
    \A i, j \in 1..Len(lst) : lst[i] = lst[j] => i = j

\* a is an initial part of b
IsPrefix(a, b) == Len(a) <= Len(b) /\ SubSeq(b, 1, Len(a)) = a

\* C15: when the user list is empty at startup, no step of start, stats or
\* handle_message, under any interleaving, makes known_users hold a user
\* twice or lose an entry; known_users holds exactly the users who have sent
\* /start or a text message, and the number stats reads is their count.
C15_KnownUsersDistinctAndGrowing ==
    [][loaded = <<>> =>
          /\ NoDuplicates(known_users')
          /\ IsPrefix(known_users, known_users')
          /\ {known_users'[i] : i \in 1..Len(known_users')} = senders'
          /\ \A h \in Slots :
                (tasks[h].pc # "counting" /\ tasks'[h].pc = "counting") =>
                    tasks'[h].total_users = Cardinality(senders')]_vars

\* the list was empty at startup and one user has sent two updates, handled
\* concurrently, and is listed once
C15_Witness ==
    /\ loaded = <<>>
    /\ updates = 2
    /\ Len(known_users) = 1
    /\ \A h \in Slots :
          /\ tasks[h].kind \in {"start", "message"}
          /\ tasks[h].user_id = known_users[1]
          /\ tasks[h].pc \notin {"done", "escaped"}

\* C16: in a run where one user's messages are handled one after another and
\* no handler faults, whenever none of that user's messages is being handled
\* the stored conversation has even length, alternates user and assistant
\* messages starting with a user message, and ends with the most recent
\* message followed by the reply that was sent for it.
Alternates(c) ==
    \A i \in 1..Len(c) :
        c[i].role = IF i % 2 = 1 THEN "user" ELSE "assistant"
EndsWithExchange(c, t) ==
    /\ Len(c) >= 2
    /\ c[Len(c) - 1] = Msg("user", t.user_input)
    /\ c[Len(c)] = Msg("assistant", t.final)

C16_AlternatesBetweenTurns ==
    \A u \in SeqUsers :
        Quiet =>
            /\ Len(Window(u)) % 2 = 0
            /\ Alternates(Window(u))
            /\ \A h \in MessageTasks :
                  (tasks[h].user_id = u /\ tasks[h].pc = "done") =>
                      EndsWithExchange(Window(u), tasks[h])

\* five exchanges were handled: the window is full, its oldest exchange was
\* evicted, and it ends with the fifth exchange
C16_Witness ==
    \E u \in SeqUsers, h \in MessageTasks :
        /\ Quiet
        /\ tasks[h].user_id = u
        /\ tasks[h].pc = "done"
        /\ Len(log[u]) = W + 2
        /\ Len(Window(u)) = W
        /\ Window(u)[Len(Window(u))] = Msg("assistant", tasks[h].final)

\* the statement as written: at every moment of such a run, also while a
\* message is being handled
C16_AlternatesAlways ==
    \A u \in SeqUsers :
        /\ Len(Window(u)) % 2 = 0
        /\ Alternates(Window(u))
        /\ Window(u) # <<>> => Window(u)[Len(Window(u))].role = "assistant"

====
